---- MODULE Spec2Model ----
(***************************************************************************)
(* Model of the BBQ cooking engine (dist/services/cooking.js).             *)
(*                                                                         *)
(* The engine is a set of functions over a static knowledge base.  A call  *)
(* is modelled as: the arguments are fixed by the initial state, and one   *)
(* action per engine function runs the whole function on them and stores   *)
(* what it returned (or that it threw).                                    *)
(*                                                                         *)
(* Numbers.  JavaScript numbers are modelled as exact rationals n/d, plus  *)
(* the two IEEE values the code can produce by dividing by zero, Infinity  *)
(* (either sign) and NaN.  Temperatures of the inputs are whole degrees,   *)
(* times are whole minutes (Date.getTime() is 60000 times the model's      *)
(* value), weights are rationals.                                          *)
(***************************************************************************)
EXTENDS Integers, Sequences, FiniteSets, TLC

VARIABLES
    proteinType,        \* argument: protein identifier
    weightPounds,       \* argument of estimateCookTime / calculateStartTime
    cookMethod,         \* argument: Some(method) or None
    smokerTemp,         \* argument: Some(temp) or None
    targetServingTime,  \* argument of calculateStartTime (a Date, minutes)
    currentTemp,        \* argument of analyzeTemperature / detectStall / calculateRestTime
    targetTemp,         \* argument of analyzeTemperature
    previousReadings,   \* argument: the reading history, oldest first
    doneness,           \* argument of getTargetTemperature: Some(level) or None
    targetFinalTemp,    \* argument of calculateRestTime: Some(temp) or None
    temperature,        \* argument of convertTemperature
    fromUnit,           \* argument of convertTemperature
    toUnit,             \* argument of convertTemperature
    now,                \* the wall clock read by new Date() and Date.now()
    cookTime,           \* outcome of estimateCookTime
    schedule,           \* outcome of calculateStartTime
    analysis,           \* outcome of analyzeTemperature
    stall,              \* outcome of detectStall
    targetResult,       \* outcome of getTargetTemperature
    restResult,         \* outcome of calculateRestTime
    converted,          \* outcome of convertTemperature
    convertedBack,      \* outcome of converting the converted value back
    globalClient,       \* thermoworks.js: the singleton, 0 (null) or a client
    clients,            \* the ThermoWorksClient objects created so far
    calls,              \* the ThermoWorks tool calls made so far
    network             \* the requests sent to ThermoWorks Cloud so far

\* the arguments of the engine calls; the clock is not one of them
args == <<proteinType, weightPounds, cookMethod, smokerTemp, targetServingTime,
          currentTemp, targetTemp, previousReadings, doneness, targetFinalTemp,
          temperature, fromUnit, toUnit>>

\* the outcomes of the engine calls
outcomes == <<cookTime, schedule, analysis, stall, targetResult, restResult, converted,
              convertedBack>>

\* the ThermoWorks Cloud session
thermoWorks == <<globalClient, clients, calls, network>>

vars == <<args, now, outcomes, thermoWorks>>

-----------------------------------------------------------------------------
(* Optional values: undefined / null is None, a present value v is Some(v). *)

None == <<>>

Some(v) == <<v>>

IsSome(o) == o # <<>>

Get(o) == o[1]

(* Outcome of a call: not made yet, returned a value, or threw. *)

Pending == [state |-> "pending"]

Returned(v) == [state |-> "returned", value |-> v]

Threw(e) == [state |-> "threw", error |-> e]

-----------------------------------------------------------------------------
(* JavaScript numbers. *)

Q(n, d) == IF d < 0 THEN [kind |-> "fin", n |-> -n, d |-> -d]
                    ELSE [kind |-> "fin", n |-> n, d |-> d]

I(n) == [kind |-> "fin", n |-> n, d |-> 1]

NaN == [kind |-> "nan", n |-> 0, d |-> 1]

Infinity(sign) == [kind |-> "inf", n |-> sign, d |-> 1]

IsNaN(x) == x.kind = "nan"

IsFinite(x) == x.kind = "fin"

Sign(k) == IF k > 0 THEN 1 ELSE IF k < 0 THEN -1 ELSE 0

\* a < b; every comparison with NaN is false
Less(a, b) ==
    IF IsNaN(a) \/ IsNaN(b) THEN FALSE
    ELSE IF a.kind = "inf" THEN a.n < 0 /\ ~(b.kind = "inf" /\ b.n < 0)
    ELSE IF b.kind = "inf" THEN b.n > 0
    ELSE a.n * b.d < b.n * a.d

Leq(a, b) ==
    IF IsNaN(a) \/ IsNaN(b) THEN FALSE
    ELSE ~Less(b, a)

\* a = b as numbers (NaN equals nothing)
Same(a, b) == Leq(a, b) /\ Leq(b, a)

Add(a, b) ==
    IF IsNaN(a) \/ IsNaN(b) THEN NaN
    ELSE IF a.kind = "inf" THEN (IF b.kind = "inf" /\ b.n # a.n THEN NaN ELSE a)
    ELSE IF b.kind = "inf" THEN b
    ELSE Q(a.n * b.d + b.n * a.d, a.d * b.d)

Neg(a) == IF IsNaN(a) THEN NaN ELSE [a EXCEPT !.n = -a.n]

Sub(a, b) == Add(a, Neg(b))

Mul(a, b) ==
    IF IsNaN(a) \/ IsNaN(b) THEN NaN
    ELSE IF a.kind = "inf" \/ b.kind = "inf"
         THEN (IF a.n = 0 \/ b.n = 0 THEN NaN ELSE Infinity(Sign(a.n) * Sign(b.n)))
    ELSE Q(a.n * b.n, a.d * b.d)

\* a / b: x/0 is +-Infinity, 0/0 is NaN (the zero divisors of the code are +0)
Div(a, b) ==
    IF IsNaN(a) \/ IsNaN(b) THEN NaN
    ELSE IF a.kind = "inf" THEN (IF b.kind = "inf" THEN NaN
                                 ELSE Infinity(a.n * (IF b.n < 0 THEN -1 ELSE 1)))
    ELSE IF b.kind = "inf" THEN I(0)
    ELSE IF b.n = 0 THEN (IF a.n = 0 THEN NaN ELSE Infinity(Sign(a.n)))
    ELSE Q(a.n * b.d, a.d * b.n)

MathMax(a, b) == IF IsNaN(a) \/ IsNaN(b) THEN NaN ELSE IF Less(a, b) THEN b ELSE a

MathMin(a, b) == IF IsNaN(a) \/ IsNaN(b) THEN NaN ELSE IF Less(b, a) THEN b ELSE a

MathAbs(a) == IF IsNaN(a) THEN NaN ELSE [a EXCEPT !.n = IF a.n < 0 THEN -a.n ELSE a.n]

\* Math.floor of a finite number, as an integer
Floor(a) == a.n \div a.d

\* Math.round: the nearest integer, halves towards +Infinity
MathRound(a) == IF IsFinite(a) THEN I((2 * a.n + a.d) \div (2 * a.d)) ELSE a

\* ToIntegerOrInfinity of a finite number: truncation towards zero
Truncate(a) == IF a.n >= 0 THEN a.n \div a.d ELSE -((-a.n) \div a.d)

\* a % m for a finite a >= 0 and an integer m > 0
Rem(a, m) == Q(a.n - m * a.d * (a.n \div (m * a.d)), a.d)

RECURSIVE GCD(_, _)
GCD(a, b) == IF b = 0 THEN a ELSE GCD(b, a % b)

\* the same number in lowest terms (one value of the model per number)
Norm(a) ==
    IF ~IsFinite(a) THEN a
    ELSE IF a.n = 0 THEN I(0)
    ELSE LET m == IF a.n < 0 THEN -a.n ELSE a.n
             g == GCD(m, a.d)
         IN  Q(a.n \div g, a.d \div g)

\* Math.round(x * 10) / 10
RoundToTenth(x) == Norm(Div(MathRound(Mul(x, I(10))), I(10)))

-----------------------------------------------------------------------------
(* Dates, in whole minutes. *)

getMinutes(date) == date % 60

\* Date.prototype.setMinutes(min): the minutes field is replaced by the
\* integer part of min, and overflow carries into the hours
setMinutes(date, min) == (date - getMinutes(date)) + Truncate(min)

-----------------------------------------------------------------------------
(* The knowledge base (constants.js): protein profiles and cook methods.   *)

DEFAULT_SMOKER_TEMP == 225

HOT_FAST_TEMP == 300

\* the CookMethod identifiers
CookMethods == {"smoke_low_slow", "smoke_hot_fast", "grill_direct", "grill_indirect",
                "reverse_sear", "spatchcock", "rotisserie"}

\* cookMethod.includes(part), for the two substrings the engine asks about
MethodIncludes(method, part) ==
    CASE part = "hot_fast" -> method \in {"smoke_hot_fast"}
      [] part = "smoke"    -> method \in {"smoke_low_slow", "smoke_hot_fast"}

NoStallRange == [defined |-> FALSE, start |-> 0, end |-> 0]

StallRange(s, e) == [defined |-> TRUE, start |-> s, end |-> e]

TimePerPound(lowSlow, hotFast, direct, indirect, reverseSear, spatchcock, rotisserie) ==
    [smoke_low_slow |-> lowSlow, smoke_hot_fast |-> hotFast, grill_direct |-> direct,
     grill_indirect |-> indirect, reverse_sear |-> reverseSear,
     spatchcock |-> spatchcock, rotisserie |-> rotisserie]

\* Profiles with the ProteinProfile fields the engine reads.  donenessTemps is
\* the doneness map in its iteration order.
PROTEIN_PROFILES ==
    [beef_brisket |->
        [type |-> "beef_brisket", category |-> "beef", usdaSafeTemp |-> 145,
         requiresRest |-> TRUE, restTimeMinutes |-> 60, carryoverDegrees |-> 5,
         donenessTemps |-> << <<"pullable", 203>> >>,
         stallRange |-> StallRange(150, 170),
         estimatedTimePerPound |-> TimePerPound(70, 45, 0, 60, 0, 0, 0)],
     beef_prime_rib |->
        [type |-> "beef_prime_rib", category |-> "beef", usdaSafeTemp |-> 145,
         requiresRest |-> TRUE, restTimeMinutes |-> 30, carryoverDegrees |-> 10,
         donenessTemps |-> << <<"rare", 120>>, <<"medium_rare", 130>>, <<"medium", 140>> >>,
         stallRange |-> NoStallRange,
         estimatedTimePerPound |-> TimePerPound(35, 20, 0, 25, 40, 0, 30)],
     chicken_breast |->
        [type |-> "chicken_breast", category |-> "poultry", usdaSafeTemp |-> 165,
         requiresRest |-> TRUE, restTimeMinutes |-> 5, carryoverDegrees |-> 5,
         donenessTemps |-> << <<"usda_safe", 165>> >>,
         stallRange |-> NoStallRange,
         estimatedTimePerPound |-> TimePerPound(60, 30, 10, 20, 50, 0, 0)],
     salmon |->
        [type |-> "salmon", category |-> "seafood", usdaSafeTemp |-> 145,
         requiresRest |-> FALSE, restTimeMinutes |-> 0, carryoverDegrees |-> 0,
         donenessTemps |-> << <<"medium_rare", 125>>, <<"medium", 135>>, <<"usda_safe", 145>> >>,
         stallRange |-> NoStallRange,
         estimatedTimePerPound |-> TimePerPound(51, 25, 8, 15, 0, 0, 0)]]

KnownProteins == DOMAIN PROTEIN_PROFILES

\* a lookup that falls back to a default profile for a key the table lacks
getProteinProfileOrDefault(protein) ==
    IF protein \in KnownProteins THEN Some(PROTEIN_PROFILES[protein])
    ELSE Some(PROTEIN_PROFILES["beef_brisket"])

\* PROTEIN_PROFILES[proteinType]: undefined for a key the table does not have
getProteinProfile(protein) ==
    IF protein \in KnownProteins THEN Some(PROTEIN_PROFILES[protein]) ELSE None

-----------------------------------------------------------------------------
(* estimateCookTime *)

\* baseline smoker temperature of a method
BaseTempAlwaysLowSlow(method) == DEFAULT_SMOKER_TEMP

BaseTemp(method) ==
    IF MethodIncludes(method, "hot_fast") THEN HOT_FAST_TEMP ELSE DEFAULT_SMOKER_TEMP

\* the multiplier for the smoker temperature; an omitted or zero smokerTemp
\* is falsy and leaves it at 1
TempAdjustment(method, smoker) ==
    IF IsSome(smoker) /\ Get(smoker) # 0
    THEN LET tempDiff == Get(smoker) - BaseTemp(method)
         IN  MathMax(Q(1, 2), MathMin(Q(3, 2), Sub(I(1), Q(tempDiff, 250))))
    ELSE I(1)

\* baseTimePerPound === 0: the method is not recommended for the protein
IsNotRecommendedNever(baseTimePerPound) == FALSE

IsNotRecommended(baseTimePerPound) == baseTimePerPound = 0

ConfidenceLevelAtLeast50(profile, baseTimePerPound) ==
    IF profile.stallRange.defined THEN "low"
    ELSE IF baseTimePerPound >= 50 THEN "medium"
    ELSE "high"

ConfidenceLevel(profile, baseTimePerPound) ==
    IF profile.stallRange.defined THEN "low"
    ELSE IF baseTimePerPound > 50 THEN "medium"
    ELSE "high"

\* the formatted duration: its text form and the two numbers shown in it
HoursAndMinutes(totalMinutes) ==
    LET hours   == Floor(Div(totalMinutes, I(60)))
        minutes == MathRound(Rem(totalMinutes, 60)).n
    IN  [form |-> IF hours > 1 THEN "H hours M minutes"
                  ELSE IF hours > 0 THEN "H hour M minutes"
                  ELSE "M minutes",
         hours |-> hours, minutes |-> minutes]

\* a total that takes in the rest as well
TotalMinutesWithRest(profile, cookMinutes) ==
    Add(cookMinutes, I((IF profile.stallRange.defined THEN 60 ELSE 0)
                       + profile.restTimeMinutes))

\* lines 59-71: the stall buffer is added to the cook time, the rest is not
TotalMinutes(profile, cookMinutes) ==
    IF profile.stallRange.defined THEN Add(cookMinutes, I(60)) ELSE cookMinutes

estimateCookTime(protein, weight, method, smoker, clock) ==
    IF getProteinProfile(protein) = None
    THEN Threw("TypeError")
    ELSE
    LET profile          == Get(getProteinProfile(protein))
        baseTimePerPound == profile.estimatedTimePerPound[method]
        tempAdjustment   == TempAdjustment(method, smoker)
        cookMinutes      == Mul(Mul(I(baseTimePerPound), weight), tempAdjustment)
        totalMinutes     == TotalMinutes(profile, cookMinutes)
        stallNotes       == IF profile.stallRange.defined
                            THEN <<"stall buffer", "wrapping reduces stall">> ELSE <<>>
        restNotes        == IF profile.requiresRest /\ profile.restTimeMinutes > 0
                            THEN <<"add rest time">> ELSE <<>>
    IN  IF IsNotRecommended(baseTimePerPound)
        THEN Returned([totalMinutes      |-> 0,
                       hoursAndMinutes   |-> [form |-> "Not recommended",
                                              hours |-> 0, minutes |-> 0],
                       estimatedDoneTime |-> clock,
                       confidence        |-> "low",
                       assumptions       |-> <<>>,
                       warnings          |-> <<"method not recommended">>])
        ELSE Returned([totalMinutes      |-> MathRound(totalMinutes).n,
                       hoursAndMinutes   |-> HoursAndMinutes(totalMinutes),
                       estimatedDoneTime |->
                           setMinutes(clock, Add(I(getMinutes(clock)), totalMinutes)),
                       confidence        |-> ConfidenceLevel(profile, baseTimePerPound),
                       assumptions       |-> stallNotes \o restNotes,
                       warnings          |-> IF profile.stallRange.defined
                                             THEN <<"stalls are unpredictable">> ELSE <<>>])

-----------------------------------------------------------------------------
(* calculateStartTime *)

BufferMinutesMediumAsHigh(confidence) ==
    IF confidence = "low" THEN 120 ELSE 30

BufferMinutes(confidence) ==
    IF confidence = "low" THEN 120 ELSE IF confidence = "medium" THEN 60 ELSE 30

calculateStartTime(protein, weight, method, servingTime, smoker, clock) ==
    LET estimate == estimateCookTime(protein, weight, method, smoker, clock)
    IN  IF estimate.state = "threw"
        THEN estimate
        ELSE
        LET profile            == Get(getProteinProfile(protein))
            restTime           == profile.restTimeMinutes
            bufferMinutes      == BufferMinutes(estimate.value.confidence)
            totalMinutesNeeded == estimate.value.totalMinutes + restTime + bufferMinutes
        IN  Returned([startTime     |-> setMinutes(servingTime,
                                           I(getMinutes(servingTime) - totalMinutesNeeded)),
                      cookTime      |-> estimate.value,
                      restTime      |-> restTime,
                      bufferMinutes |-> bufferMinutes])

-----------------------------------------------------------------------------
(* analyzeTemperature *)

\* the slice forgotten: every reading passed
SliceAll(readings, k) == readings

\* readings.slice(-k): the last k readings, or all of them if there are fewer
SliceLast(readings, k) ==
    SubSeq(readings, IF Len(readings) > k THEN Len(readings) - k + 1 ELSE 1, Len(readings))

\* number of readings the trend looks at
TrendWindow == 5

\* a test without the upper bound
InRangeOrAbove(profile, temp) == temp >= profile.stallRange.start

\* stallRange.start <= temp <= stallRange.end, for a profile that has a range
InRange(profile, temp) ==
    temp >= profile.stallRange.start /\ temp <= profile.stallRange.end

InStallZoneExclusive(profile, temp) ==
    profile.stallRange.defined /\ temp > profile.stallRange.start
                               /\ temp < profile.stallRange.end

InStallZone(profile, temp) == profile.stallRange.defined /\ InRange(profile, temp)

\* Math.min(100, Math.max(0, tempProgress / totalTempRange * 100))
PercentComplete(current, target) ==
    LET startingTemp   == 40
        totalTempRange == target - startingTemp
        tempProgress   == current - startingTemp
    IN  MathMin(I(100), MathMax(I(0), Mul(Div(I(tempProgress), I(totalTempRange)), I(100))))

\* classification of a rate computed over a positive time span
ClassifyRounded(profile, current, rate) ==
    IF Less(MathAbs(RoundToTenth(rate)), I(2))
    THEN (IF InStallZone(profile, current) THEN "stalled" ELSE "stable")
    ELSE IF Less(I(0), rate) THEN "rising"
    ELSE "falling"

Classify(profile, current, rate) ==
    IF Less(MathAbs(rate), I(2))
    THEN (IF InStallZone(profile, current) THEN "stalled" ELSE "stable")
    ELSE IF Less(I(0), rate) THEN "rising"
    ELSE "falling"

\* timeChange > 0: the window spans a positive time
SpanIsNotZero(timeChange) == timeChange.n # 0

SpanIsPositive(timeChange) == Less(I(0), timeChange)

\* trend and trendRatePerHour (unrounded) from the reading history
Trend(profile, current, readings) ==
    IF Len(readings) >= 2
    THEN LET recentReadings == SliceLast(readings, TrendWindow)
             firstReading   == recentReadings[1]
             lastReading    == recentReadings[Len(recentReadings)]
             tempChange     == lastReading.temp - firstReading.temp
             timeChange     == Q(lastReading.timestamp - firstReading.timestamp, 60)
         IN  IF SpanIsPositive(timeChange)
             THEN LET rate == Div(I(tempChange), timeChange)
                  IN  [trend |-> Classify(profile, current, rate), rate |-> rate]
             ELSE [trend |-> "stable", rate |-> I(0)]
    ELSE [trend |-> "stable", rate |-> I(0)]

\* estimatedMinutesRemaining
MinutesRemainingWhenPositive(tempDelta, trend, rate) ==
    IF Less(I(0), rate)
    THEN Some(MathRound(Mul(Div(I(tempDelta), rate), I(60))).n)
    ELSE None

MinutesRemaining(tempDelta, trend, rate) ==
    IF Less(I(0), rate) /\ trend = "rising"
    THEN Some(MathRound(Mul(Div(I(tempDelta), rate), I(60))).n)
    ELSE None

\* the ladder as one if / else-if chain: only the first matching clause speaks
RecommendationsFirstMatch(profile, current, target, method, readings, trend, inStallZone, percent) ==
    LET tempDelta == target - current
    IN  IF inStallZone /\ trend = "stalled"
          THEN << <<"in the stall zone">>, <<"consider wrapping">> >>
        ELSE IF inStallZone /\ trend = "rising"
          THEN << <<"rising through the stall zone">> >>
        ELSE IF tempDelta <= profile.carryoverDegrees + 5
          THEN << <<"getting close, pull at", target - profile.carryoverDegrees>> >>
        ELSE IF tempDelta <= 0
          THEN << <<"target reached">> >>
               \o (IF profile.requiresRest
                     THEN << <<"rest for minutes", profile.restTimeMinutes>> >>
                   ELSE <<>>)
        ELSE IF trend = "falling"
          THEN << <<"temperature is dropping">> >>
               \o (IF IsSome(method) /\ MethodIncludes(Get(method), "smoke")
                     THEN << <<"add fuel or adjust airflow">> >>
                   ELSE <<>>)
        ELSE IF Less(percent, I(25)) /\ Len(readings) > 0
          THEN << <<"early stages">> >>
        ELSE <<>>

\* the recommendation strings: each is its fixed text, with the number the
\* template interpolates, if any
Recommendations(profile, current, target, method, readings, trend, inStallZone, percent) ==
    LET tempDelta == target - current
    IN  (IF inStallZone /\ trend = "stalled"
           THEN << <<"in the stall zone">>, <<"consider wrapping">> >>
         ELSE IF inStallZone /\ trend = "rising"
           THEN << <<"rising through the stall zone">> >>
         ELSE <<>>)
        \o (IF tempDelta <= profile.carryoverDegrees + 5
              THEN << <<"getting close, pull at", target - profile.carryoverDegrees>> >>
            ELSE <<>>)
        \o (IF tempDelta <= 0
              THEN << <<"target reached">> >>
                   \o (IF profile.requiresRest
                         THEN << <<"rest for minutes", profile.restTimeMinutes>> >>
                       ELSE <<>>)
            ELSE <<>>)
        \o (IF trend = "falling"
              THEN << <<"temperature is dropping">> >>
                   \o (IF IsSome(method) /\ MethodIncludes(Get(method), "smoke")
                         THEN << <<"add fuel or adjust airflow">> >>
                       ELSE <<>>)
            ELSE <<>>)
        \o (IF Less(percent, I(25)) /\ Len(readings) > 0
              THEN << <<"early stages">> >>
            ELSE <<>>)

analyzeTemperature(current, target, protein, method, readings) ==
    IF getProteinProfile(protein) = None
    THEN Threw("TypeError")
    ELSE
    LET profile         == Get(getProteinProfile(protein))
        tempDelta       == target - current
        percentComplete == PercentComplete(current, target)
        trendInfo       == Trend(profile, current, readings)
        trend           == trendInfo.trend
        trendRate       == trendInfo.rate
        inStallZone     == InStallZone(profile, current)
    IN  Returned([currentTemp      |-> current,
                  targetTemp       |-> target,
                  tempDelta        |-> tempDelta,
                  percentComplete  |-> RoundToTenth(percentComplete),
                  trend            |-> trend,
                  trendRatePerHour |-> RoundToTenth(trendRate),
                  estimatedMinutesRemaining |-> MinutesRemaining(tempDelta, trend, trendRate),
                  inStallZone      |-> inStallZone,
                  recommendations  |->
                      Recommendations(profile, current, target, method, readings,
                                      trend, inStallZone, percentComplete)])

-----------------------------------------------------------------------------
(* detectStall *)

\* number of readings the stall confirmation looks at
StallWindow == 6

\* rate below which a cook inside the stall range counts as stalled
IsStalledRateBelowTwo(rate) == Less(rate, I(2))

IsStalledRate(rate) == Less(rate, I(3))

\* a loop that stops at the newest reading inside the range
StallDurationOfNewest(profile, readings, i, clock, duration) ==
    IF i >= 1 /\ InRange(profile, readings[i].temp)
    THEN I(clock - readings[i].timestamp)
    ELSE duration

\* the loop of lines 264-272: walking back from the newest reading, the
\* duration is that of the last reading visited before one outside the range
RECURSIVE StallDuration(_, _, _, _, _)
StallDuration(profile, readings, i, clock, duration) ==
    IF i < 1 THEN duration
    ELSE IF InRange(profile, readings[i].temp)
         THEN StallDuration(profile, readings, i - 1, clock,
                            I(clock - readings[i].timestamp))
         ELSE duration

StallRecommendation(isStalled, duration) ==
    IF isStalled
    THEN (IF Less(duration, I(60)) THEN <<"stall detected, this is normal">>
          ELSE IF Less(duration, I(180))
               THEN <<"stall has lasted minutes, consider wrapping", MathRound(duration).n>>
          ELSE <<"extended stall of minutes", MathRound(duration).n>>)
    ELSE <<"in the stall zone but still rising">>

detectStall(protein, current, readings, clock) ==
    IF getProteinProfile(protein) = None
    THEN Threw("TypeError")
    ELSE
    LET profile        == Get(getProteinProfile(protein))
        inStallZone    == InRange(profile, current)
        recentReadings == SliceLast(readings, StallWindow)
        newest         == recentReadings[Len(recentReadings)]
        oldest         == recentReadings[1]
        tempChange     == newest.temp - oldest.temp
        timeSpanMinutes == newest.timestamp - oldest.timestamp
        tempRatePerHour == IF timeSpanMinutes > 0
                           THEN Mul(Div(I(tempChange), I(timeSpanMinutes)), I(60))
                           ELSE I(0)
        isStalled      == IsStalledRate(tempRatePerHour)
        duration       == IF isStalled /\ Len(readings) >= 3
                          THEN StallDuration(profile, readings, Len(readings), clock, I(0))
                          ELSE I(0)
    IN  IF ~profile.stallRange.defined
        THEN Returned([isStalled |-> FALSE, stallDurationMinutes |-> 0,
                       inStallZone |-> FALSE,
                       recommendation |-> <<"typically doesn't experience a stall">>])
        ELSE IF ~inStallZone
        THEN (IF current < profile.stallRange.start
              THEN Returned([isStalled |-> FALSE, stallDurationMinutes |-> 0,
                             inStallZone |-> FALSE,
                             recommendation |-> <<"approaching stall zone">>])
              ELSE Returned([isStalled |-> FALSE, stallDurationMinutes |-> 0,
                             inStallZone |-> FALSE,
                             recommendation |-> <<"pushed through the stall">>]))
        ELSE IF Len(recentReadings) < 3
        THEN Returned([isStalled |-> FALSE, stallDurationMinutes |-> 0,
                       inStallZone |-> TRUE,
                       recommendation |-> <<"need more readings">>])
        ELSE Returned([isStalled |-> isStalled,
                       stallDurationMinutes |-> MathRound(duration).n,
                       inStallZone |-> inStallZone,
                       recommendation |-> StallRecommendation(isStalled, duration)])

-----------------------------------------------------------------------------
(* getTargetTemperature *)

\* profile.donenessTemps[level]: undefined (None) for a level the map lacks
DonenessTemp(profile, level) ==
    LET hits == {i \in DOMAIN profile.donenessTemps :
                     profile.donenessTemps[i][1] = level}
    IN  IF hits = {} THEN None
        ELSE Some(profile.donenessTemps[CHOOSE i \in hits : TRUE][2])

\* the requested level is used whether or not the map defines it
ActualDonenessAsRequested(profile, requested) ==
    IF IsSome(requested) THEN requested
    ELSE IF profile.donenessTemps = <<>> THEN None
    ELSE Some(profile.donenessTemps[1][1])

\* the level the result reports: the requested one when the map defines it,
\* else Object.keys(profile.donenessTemps)[0], undefined for an empty map
ActualDoneness(profile, requested) ==
    IF IsSome(requested) /\ IsSome(DonenessTemp(profile, Get(requested)))
    THEN requested
    ELSE IF profile.donenessTemps = <<>> THEN None
    ELSE Some(profile.donenessTemps[1][1])

\* the carryover added instead of subtracted
PullTempAboveTarget(profile, temp) == temp + profile.carryoverDegrees

PullTemp(profile, temp) == temp - profile.carryoverDegrees

getTargetTemperature(protein, requested) ==
    IF getProteinProfile(protein) = None
    THEN Threw("TypeError")
    ELSE
    LET profile        == Get(getProteinProfile(protein))
        actualDoneness == ActualDoneness(profile, requested)
        mapped         == IF IsSome(actualDoneness)
                          THEN DonenessTemp(profile, Get(actualDoneness))
                          ELSE None
        temp           == IF IsSome(mapped) THEN Get(mapped) ELSE profile.usdaSafeTemp
    IN  Returned([targetTemp |-> temp,
                  pullTemp   |-> PullTemp(profile, temp),
                  doneness   |-> actualDoneness])

-----------------------------------------------------------------------------
(* calculateRestTime *)

\* "targetFinalTemp &&": an omitted target and a target of 0 are both falsy
IsTruthy(optionalNumber) == IsSome(optionalNumber) /\ Get(optionalNumber) # 0

\* lines 316-324: the resting advice of the category
RestingAdvice(profile, protein) ==
    IF profile.category = "beef" /\ protein \in {"beef_brisket", "beef_prime_rib"}
    THEN <<"rest in a cooler wrapped in towels">>
    ELSE IF profile.category = "poultry"
    THEN <<"rest uncovered or loosely tented">>
    ELSE <<"rest loosely tented with foil">>

\* the overshoot warning given as soon as the target is exceeded
FinalTempWarningWithoutMargin(expectedCarryover, expectedFinalTemp, finalTarget) ==
    IF IsTruthy(finalTarget) /\ expectedFinalTemp < Get(finalTarget)
    THEN << <<"final temp may be below target by", Get(finalTarget) - expectedFinalTemp>> >>
    ELSE IF IsTruthy(finalTarget) /\ expectedFinalTemp > Get(finalTarget)
    THEN << <<"final temp may exceed target, pull earlier at",
              Get(finalTarget) - expectedCarryover>> >>
    ELSE <<>>

\* lines 325-331: the warning about the final temperature, if any
FinalTempWarning(expectedCarryover, expectedFinalTemp, finalTarget) ==
    IF IsTruthy(finalTarget) /\ expectedFinalTemp < Get(finalTarget)
    THEN << <<"final temp may be below target by", Get(finalTarget) - expectedFinalTemp>> >>
    ELSE IF IsTruthy(finalTarget) /\ expectedFinalTemp > Get(finalTarget) + 5
    THEN << <<"final temp may exceed target, pull earlier at",
              Get(finalTarget) - expectedCarryover>> >>
    ELSE <<>>

calculateRestTime(protein, current, finalTarget) ==
    IF getProteinProfile(protein) = None
    THEN Threw("TypeError")
    ELSE
    LET profile                == Get(getProteinProfile(protein))
        expectedCarryover      == profile.carryoverDegrees
        expectedFinalTemp      == current + expectedCarryover
        recommendedRestMinutes == profile.restTimeMinutes
        instructions ==
            IF ~profile.requiresRest
            THEN << <<"doesn't require significant resting">>,
                    <<"serve immediately">> >>
            ELSE << <<"rest for minutes", recommendedRestMinutes>>,
                    <<"temperature will rise approximately", expectedCarryover>>,
                    <<"expected final temperature", expectedFinalTemp>>,
                    RestingAdvice(profile, protein) >>
                 \o FinalTempWarning(expectedCarryover, expectedFinalTemp, finalTarget)
    IN  Returned([recommendedRestMinutes |-> recommendedRestMinutes,
                  expectedCarryover      |-> expectedCarryover,
                  expectedFinalTemp      |-> expectedFinalTemp,
                  instructions           |-> instructions])

-----------------------------------------------------------------------------
(* convertTemperature *)

TemperatureUnits == {"fahrenheit", "celsius"}

\* the offset of 32 left out of the Fahrenheit to Celsius formula
convertTemperatureWithoutOffset(temp, from, to) ==
    IF from = to THEN temp
    ELSE IF from = "fahrenheit" /\ to = "celsius"
    THEN RoundToTenth(Div(Mul(temp, I(5)), I(9)))
    ELSE MathRound(Add(Div(Mul(temp, I(9)), I(5)), I(32)))

convertTemperature(temp, from, to) ==
    IF from = to THEN temp
    ELSE IF from = "fahrenheit" /\ to = "celsius"
    THEN RoundToTenth(Div(Mul(Sub(temp, I(32)), I(5)), I(9)))
    ELSE MathRound(Add(Div(Mul(temp, I(9)), I(5)), I(32)))

-----------------------------------------------------------------------------
(* The parts of the state a family of calls does not use. *)

\* thermoworks.js as loaded: no singleton, nothing called or sent yet
InitThermoWorks ==
    /\ globalClient = 0
    /\ clients = <<>>
    /\ calls = <<>>
    /\ network = <<>>

NoTargetCall ==
    /\ doneness = None
    /\ targetFinalTemp = None
    /\ targetResult = Pending
    /\ restResult = Pending

NoConversion ==
    /\ temperature = I(0)
    /\ fromUnit = "fahrenheit"
    /\ toUnit = "fahrenheit"
    /\ converted = Pending
    /\ convertedBack = Pending

-----------------------------------------------------------------------------
(* Calls of estimateCookTime and calculateStartTime. *)

\* protein identifiers passed by callers: the profiles, and one the table lacks
ProteinInputs == KnownProteins \cup {"tofu"}

WeightInputs == {Q(1, 2), I(1), Q(41, 4), Q(25, 2), I(14), I(50)}

SmokerTempInputs == {None} \cup
    {Some(t) : t \in {0, 50, 100, 175, 200, 225, 250, 300, 350, 425, 500}}

ServingTimeInputs == {1080, 6139}

ClockInputs == {600, 659}

InitCookTime ==
    /\ proteinType \in ProteinInputs
    /\ weightPounds \in WeightInputs
    /\ cookMethod \in {Some(m) : m \in CookMethods}
    /\ smokerTemp \in SmokerTempInputs
    /\ targetServingTime \in ServingTimeInputs
    /\ now \in ClockInputs
    /\ currentTemp = 0
    /\ targetTemp = 0
    /\ previousReadings = <<>>
    /\ cookTime = Pending
    /\ schedule = Pending
    /\ analysis = Pending
    /\ stall = Pending
    /\ NoTargetCall
    /\ NoConversion
    /\ InitThermoWorks

EstimateCookTime ==
    /\ cookTime = Pending
    /\ IsSome(cookMethod)
    /\ cookTime' = estimateCookTime(proteinType, weightPounds, Get(cookMethod),
                                    smokerTemp, now)
    /\ UNCHANGED <<args, now, thermoWorks, schedule, analysis, stall,
                 targetResult, restResult, converted, convertedBack>>

CalculateStartTime ==
    /\ schedule = Pending
    /\ IsSome(cookMethod)
    /\ schedule' = calculateStartTime(proteinType, weightPounds, Get(cookMethod),
                                      targetServingTime, smokerTemp, now)
    /\ UNCHANGED <<args, now, thermoWorks, cookTime, analysis, stall,
                 targetResult, restResult, converted, convertedBack>>

NextCookTime == EstimateCookTime \/ CalculateStartTime

SpecCookTime == InitCookTime /\ [][NextCookTime]_vars

-----------------------------------------------------------------------------
(* Reading histories passed by callers. *)

\* longest history passed
MaxReadings == 7

Readings == [temp : {149, 150, 152}, timestamp : {0, 60, 61}]

FillerReading == [temp |-> 150, timestamp |-> 60]

\* Histories of n readings: the newest reading and one earlier reading, at any
\* position, range over Readings (in any order of timestamps), the others are
\* the filler reading.
HistoriesOfLength(n) ==
    IF n = 0 THEN {<<>>}
    ELSE IF n = 1 THEN {<<r>> : r \in Readings}
    ELSE {[i \in 1..n |-> IF i = n THEN b ELSE IF i = k THEN a ELSE FillerReading] :
              a \in Readings, b \in Readings, k \in 1..(n - 1)}

ReadingHistories == UNION {HistoriesOfLength(n) : n \in 0..MaxReadings}

-----------------------------------------------------------------------------
(* Calls of analyzeTemperature. *)

CurrentTempInputs == {40, 149, 150, 170, 171}

TargetTempInputs == {30, 40, 160, 175, 203}

AnalysisMethodInputs == {None, Some("smoke_low_slow"), Some("grill_direct")}

InitAnalysis ==
    /\ proteinType \in KnownProteins
    /\ currentTemp \in CurrentTempInputs
    /\ targetTemp \in TargetTempInputs
    /\ cookMethod \in AnalysisMethodInputs
    /\ previousReadings \in ReadingHistories
    /\ weightPounds = I(1)
    /\ smokerTemp = None
    /\ targetServingTime = 0
    /\ now = 0
    /\ cookTime = Pending
    /\ schedule = Pending
    /\ analysis = Pending
    /\ stall = Pending
    /\ NoTargetCall
    /\ NoConversion
    /\ InitThermoWorks

\* an omitted previous_readings behaves as the empty list: both uses of the
\* argument (lines 134 and 194) test its length after its presence
AnalyzeTemperature ==
    /\ analysis = Pending
    /\ analysis' = analyzeTemperature(currentTemp, targetTemp, proteinType, cookMethod,
                                      previousReadings)
    /\ UNCHANGED <<args, now, thermoWorks, cookTime, schedule, stall,
                 targetResult, restResult, converted, convertedBack>>

NextAnalysis == AnalyzeTemperature

SpecAnalysis == InitAnalysis /\ [][NextAnalysis]_vars

\* Calls whose history is exactly the five readings the trend looks at; the
\* readings a longer history has before them are drawn from OlderReadings.
MaxOlder == 2

OlderReadingInputs == {[temp |-> 149, timestamp |-> 0], [temp |-> 153, timestamp |-> 61]}

RECURSIVE ReadingLists(_)
ReadingLists(n) ==
    IF n = 0 THEN {<<>>}
    ELSE {<<r>> \o rest : r \in OlderReadingInputs, rest \in ReadingLists(n - 1)}

OlderReadings == UNION {ReadingLists(n) : n \in 1..MaxOlder}

InitWindow ==
    /\ proteinType \in KnownProteins
    /\ currentTemp \in CurrentTempInputs
    /\ targetTemp \in {160, 203}
    /\ cookMethod \in AnalysisMethodInputs
    /\ previousReadings \in HistoriesOfLength(5)
    /\ weightPounds = I(1)
    /\ smokerTemp = None
    /\ targetServingTime = 0
    /\ now = 0
    /\ cookTime = Pending
    /\ schedule = Pending
    /\ analysis = Pending
    /\ stall = Pending
    /\ NoTargetCall
    /\ NoConversion
    /\ InitThermoWorks

SpecWindow == InitWindow /\ [][NextAnalysis]_vars

-----------------------------------------------------------------------------
(* Calls of detectStall, and of analyzeTemperature on the same reading. *)

StallClockInputs == {61, 120, 240, 300}

StallTargetInputs == {203}

InitStall ==
    /\ proteinType \in KnownProteins
    /\ currentTemp \in CurrentTempInputs
    /\ targetTemp \in StallTargetInputs
    /\ cookMethod = None
    /\ previousReadings \in ReadingHistories
    /\ now \in StallClockInputs
    /\ weightPounds = I(1)
    /\ smokerTemp = None
    /\ targetServingTime = 0
    /\ cookTime = Pending
    /\ schedule = Pending
    /\ analysis = Pending
    /\ stall = Pending
    /\ NoTargetCall
    /\ NoConversion
    /\ InitThermoWorks

DetectStall ==
    /\ stall = Pending
    /\ stall' = detectStall(proteinType, currentTemp, previousReadings, now)
    /\ UNCHANGED <<args, now, thermoWorks, cookTime, schedule, analysis,
                 targetResult, restResult, converted, convertedBack>>

NextStall == DetectStall \/ AnalyzeTemperature

SpecStall == InitStall /\ [][NextStall]_vars

-----------------------------------------------------------------------------
(* Calls of getTargetTemperature and calculateRestTime. *)

DonenessLevels ==
    {"rare", "medium_rare", "medium", "medium_well", "well_done", "pullable",
     "usda_safe"}

DonenessInputs == {None} \cup {Some(level) : level \in DonenessLevels}

\* temperatures the meat is pulled at
RestTempInputs == 118..132

\* final targets: omitted, zero, and the medium-rare target of the demo
FinalTargetInputs == {None, Some(0), Some(130)}

InitTarget ==
    /\ proteinType \in ProteinInputs
    /\ doneness \in DonenessInputs
    /\ currentTemp \in RestTempInputs
    /\ targetFinalTemp \in FinalTargetInputs
    /\ weightPounds = I(1)
    /\ cookMethod = None
    /\ smokerTemp = None
    /\ targetServingTime = 0
    /\ targetTemp = 0
    /\ previousReadings = <<>>
    /\ now = 0
    /\ cookTime = Pending
    /\ schedule = Pending
    /\ analysis = Pending
    /\ stall = Pending
    /\ targetResult = Pending
    /\ restResult = Pending
    /\ NoConversion
    /\ InitThermoWorks

GetTargetTemperature ==
    /\ targetResult = Pending
    /\ targetResult' = getTargetTemperature(proteinType, doneness)
    /\ UNCHANGED <<args, now, thermoWorks, cookTime, schedule, analysis, stall,
                   restResult, converted, convertedBack>>

CalculateRestTime ==
    /\ restResult = Pending
    /\ restResult' = calculateRestTime(proteinType, currentTemp, targetFinalTemp)
    /\ UNCHANGED <<args, now, thermoWorks, cookTime, schedule, analysis, stall,
                   targetResult, converted, convertedBack>>

NextTarget == GetTargetTemperature \/ CalculateRestTime

SpecTarget == InitTarget /\ [][NextTarget]_vars

-----------------------------------------------------------------------------
(* Calls of convertTemperature: a value is converted, and the result is     *)
(* converted back.                                                          *)

\* whole degrees from -40 to 500
ConversionInputs == {I(t) : t \in -40..500}

InitConvert ==
    /\ temperature \in ConversionInputs
    /\ fromUnit \in TemperatureUnits
    /\ toUnit \in TemperatureUnits
    /\ converted = Pending
    /\ convertedBack = Pending
    /\ proteinType = "beef_brisket"
    /\ weightPounds = I(1)
    /\ cookMethod = None
    /\ smokerTemp = None
    /\ targetServingTime = 0
    /\ currentTemp = 0
    /\ targetTemp = 0
    /\ previousReadings = <<>>
    /\ now = 0
    /\ cookTime = Pending
    /\ schedule = Pending
    /\ analysis = Pending
    /\ stall = Pending
    /\ NoTargetCall
    /\ InitThermoWorks

ConvertTemperature ==
    /\ converted = Pending
    /\ converted' = Returned(convertTemperature(temperature, fromUnit, toUnit))
    /\ UNCHANGED <<args, now, thermoWorks, cookTime, schedule, analysis, stall,
                   targetResult, restResult, convertedBack>>

ConvertBack ==
    /\ converted # Pending
    /\ convertedBack = Pending
    /\ convertedBack' = Returned(convertTemperature(converted.value, toUnit, fromUnit))
    /\ UNCHANGED <<args, now, thermoWorks, cookTime, schedule, analysis, stall,
                   targetResult, restResult, converted>>

NextConvert == ConvertTemperature \/ ConvertBack

SpecConvert == InitConvert /\ [][NextConvert]_vars

-----------------------------------------------------------------------------
(* Every engine call on one set of arguments, made once or again later.     *)

EngineMethodInputs == {Some("smoke_low_slow"), Some("grill_direct")}

\* no readings, three readings at one instant, and three rising ones
EngineHistories ==
    {<<>>,
     <<FillerReading, FillerReading, FillerReading>>,
     <<[temp |-> 149, timestamp |-> 0], [temp |-> 150, timestamp |-> 60],
       [temp |-> 152, timestamp |-> 61]>>}

EngineTempInputs == {130, 150}

EngineDonenessInputs == {None, Some("rare"), Some("medium")}

EngineFinalTargetInputs == {None, Some(130)}

\* the instants the calls are made at
EngineClockInputs == {61, 300}

Init ==
    /\ proteinType \in ProteinInputs
    /\ weightPounds = Q(25, 2)
    /\ cookMethod \in EngineMethodInputs
    /\ smokerTemp = None
    /\ targetServingTime = 1080
    /\ currentTemp \in EngineTempInputs
    /\ targetTemp = 203
    /\ previousReadings \in EngineHistories
    /\ doneness \in EngineDonenessInputs
    /\ targetFinalTemp \in EngineFinalTargetInputs
    /\ temperature = I(203)
    /\ fromUnit = "fahrenheit"
    /\ toUnit = "celsius"
    /\ now = 61
    /\ cookTime = Pending
    /\ schedule = Pending
    /\ analysis = Pending
    /\ stall = Pending
    /\ targetResult = Pending
    /\ restResult = Pending
    /\ converted = Pending
    /\ convertedBack = Pending
    /\ InitThermoWorks

\* time passes between two calls
ClockAdvances ==
    /\ \E t \in EngineClockInputs : now < t /\ now' = t
    /\ UNCHANGED <<args, outcomes, thermoWorks>>

\* a function called again with the arguments of its first call
AnalyzeTemperatureAgain ==
    /\ analysis # Pending
    /\ analysis' = analyzeTemperature(currentTemp, targetTemp, proteinType, cookMethod,
                                      previousReadings)
    /\ UNCHANGED <<args, now, thermoWorks, cookTime, schedule, stall,
                   targetResult, restResult, converted, convertedBack>>

DetectStallAgain ==
    /\ stall # Pending
    /\ stall' = detectStall(proteinType, currentTemp, previousReadings, now)
    /\ UNCHANGED <<args, now, thermoWorks, cookTime, schedule, analysis,
                   targetResult, restResult, converted, convertedBack>>

CalculateRestTimeAgain ==
    /\ restResult # Pending
    /\ restResult' = calculateRestTime(proteinType, currentTemp, targetFinalTemp)
    /\ UNCHANGED <<args, now, thermoWorks, cookTime, schedule, analysis, stall,
                   targetResult, converted, convertedBack>>

GetTargetTemperatureAgain ==
    /\ targetResult # Pending
    /\ targetResult' = getTargetTemperature(proteinType, doneness)
    /\ UNCHANGED <<args, now, thermoWorks, cookTime, schedule, analysis, stall,
                   restResult, converted, convertedBack>>

ConvertTemperatureAgain ==
    /\ converted # Pending
    /\ converted' = Returned(convertTemperature(temperature, fromUnit, toUnit))
    /\ UNCHANGED <<args, now, thermoWorks, cookTime, schedule, analysis, stall,
                   targetResult, restResult, convertedBack>>

Next ==
    \/ GetTargetTemperature
    \/ EstimateCookTime
    \/ CalculateStartTime
    \/ AnalyzeTemperature
    \/ DetectStall
    \/ CalculateRestTime
    \/ ConvertTemperature
    \/ ClockAdvances
    \/ AnalyzeTemperatureAgain
    \/ DetectStallAgain
    \/ CalculateRestTimeAgain
    \/ GetTargetTemperatureAgain
    \/ ConvertTemperatureAgain

Spec == Init /\ [][Next]_vars

-----------------------------------------------------------------------------
(* Properties of estimateCookTime and calculateStartTime (SpecCookTime). *)

\* x is n/d rounded to the nearest integer (halves up), in integers, d > 0
IsRounded(x, n, d) == 2 * x * d - d <= 2 * n /\ 2 * n < 2 * x * d + d

\* n/d rounded to the nearest integer (halves up), d > 0
HalfUp(n, d) == (2 * n + d) \div (2 * d)

\* minutes per pound of the call's protein and method (known proteins only)
CallTimePerPound == PROTEIN_PROFILES[proteinType].estimatedTimePerPound[Get(cookMethod)]

CallProfile == PROTEIN_PROFILES[proteinType]

\* C7: for a known protein and a method whose minutes-per-pound is 0,
\* estimateCookTime returns (does not throw) totalMinutes = 0, confidence
\* "low", a non-empty warnings list and no assumptions (no stall buffer),
\* whatever the weight and the smoker temperature.
C7_NotRecommendedEstimate ==
    (cookTime # Pending /\ proteinType \in KnownProteins /\ CallTimePerPound = 0)
    => /\ cookTime.state = "returned"
       /\ cookTime.value.totalMinutes = 0
       /\ cookTime.value.confidence = "low"
       /\ Len(cookTime.value.warnings) > 0
       /\ cookTime.value.assumptions = <<>>

\* a stall-prone protein with a supplied smoker temperature and a zero method
C7_Witness ==
    /\ cookTime.state = "returned"
    /\ proteinType = "beef_brisket"
    /\ Get(cookMethod) = "grill_direct"
    /\ smokerTemp = Some(350)
    /\ cookTime.value.totalMinutes = 0

\* the baseline the claim names for a method
C8_Baseline(method) == IF method = "smoke_hot_fast" THEN 300 ELSE 225

\* 250 * the clamped multiplier, 1 - (t - baseline)/250 within [0.5, 1.5]
C8_Adjustment250(method, t) ==
    LET a == 250 - (t - C8_Baseline(method))
    IN  IF a < 125 THEN 125 ELSE IF a > 375 THEN 375 ELSE a


C9_Confidence ==
    (cookTime.state = "returned" /\ CallTimePerPound # 0)
    => LET c == cookTime.value.confidence
       IN  /\ (c = "low") <=> CallProfile.stallRange.defined
           /\ ~CallProfile.stallRange.defined =>
                  /\ (CallTimePerPound <= 50 => c = "high")
                  /\ (CallTimePerPound > 50 => c = "medium")

\* minutes-per-pound exactly 50 without a stall range
C9_Witness ==
    /\ cookTime.state = "returned"
    /\ proteinType = "chicken_breast"
    /\ Get(cookMethod) = "reverse_sear"
    /\ cookTime.value.confidence = "high"

\* C10: calculateStartTime returns startTime = targetServingTime minus
\* (cookTime.totalMinutes + rest minutes + buffer) minutes, cookTime being
\* the estimateCookTime result for the same arguments and the buffer 120 /
\* 60 / 30 for confidence low / medium / high; restTime and bufferMinutes
\* are the values subtracted; targetServingTime is left as it was.
C10_StartTime ==
    [][(schedule = Pending /\ schedule'.state = "returned")
       => LET r == schedule'.value
          IN  /\ targetServingTime' = targetServingTime
              /\ r.cookTime = estimateCookTime(proteinType, weightPounds, Get(cookMethod),
                                               smokerTemp, now).value
              /\ r.restTime = CallProfile.restTimeMinutes
              /\ r.bufferMinutes = (CASE r.cookTime.confidence = "low" -> 120
                                      [] r.cookTime.confidence = "medium" -> 60
                                      [] r.cookTime.confidence = "high" -> 30)
              /\ r.startTime = targetServingTime
                               - (r.cookTime.totalMinutes + r.restTime + r.bufferMinutes)
      ]_vars

\* a medium-confidence schedule whose start lies a day before serving time
C10_Witness ==
    /\ schedule.state = "returned"
    /\ schedule.value.cookTime.confidence = "medium"
    /\ schedule.value.bufferMinutes = 60
    /\ schedule.value.restTime = 5
    /\ targetServingTime = 1080
    /\ schedule.value.startTime < 0

\* C11 as claimed: calculateStartTime fails, returning no schedule, for an
\* unknown protein and also for a method whose minutes-per-pound is 0 for
\* the protein.
C11_FailsOnUnsupportedMethod ==
    (/\ schedule # Pending
     /\ (proteinType \notin KnownProteins \/ CallTimePerPound = 0))
    => schedule.state = "threw"

\* C11 as amended: calculateStartTime fails, returning no schedule, for an
\* unknown protein; for a known protein and a method whose minutes-per-pound
\* is 0 it returns a schedule built on the zero-minute estimate: cook time 0
\* with confidence low and the warning, buffer 120, and a start time of the
\* serving time minus the rest minutes and the buffer.
C11_StartTimeFailure ==
    schedule # Pending
    => /\ proteinType \notin KnownProteins => schedule.state = "threw"
       /\ (proteinType \in KnownProteins /\ CallTimePerPound = 0)
          => /\ schedule.state = "returned"
             /\ schedule.value.cookTime.totalMinutes = 0
             /\ schedule.value.cookTime.confidence = "low"
             /\ schedule.value.cookTime.warnings # <<>>
             /\ schedule.value.bufferMinutes = 120
             /\ schedule.value.startTime
                = targetServingTime - (CallProfile.restTimeMinutes + 120)

\* calculateStartTime was called for a protein the table lacks and threw
C11_Witness ==
    /\ proteinType = "tofu"
    /\ schedule.state = "threw"
    /\ cookTime.state = "threw"

-----------------------------------------------------------------------------
(* Properties of analyzeTemperature (SpecAnalysis) and detectStall          *)
(* (SpecStall), stated on the arguments in integer arithmetic.              *)

\* first and last reading of the window of the last k readings
WindowFirst(k) ==
    previousReadings[IF Len(previousReadings) > k THEN Len(previousReadings) - k + 1 ELSE 1]

WindowLast == previousReadings[Len(previousReadings)]

WindowTempChange(k) == WindowLast.temp - WindowFirst(k).temp

WindowMinutes(k) == WindowLast.timestamp - WindowFirst(k).timestamp

\* the call's currentTemp lies in the profile's stall range, bounds included
CallInStallRange ==
    /\ CallProfile.stallRange.defined
    /\ CallProfile.stallRange.start <= currentTemp
    /\ currentTemp <= CallProfile.stallRange.end

\* the number x equals tenths / 10
IsTenths(x, tenths) == IsFinite(x) /\ x.n * 10 = tenths * x.d

Clamp(x, lo, hi) == IF x < lo THEN lo ELSE IF x > hi THEN hi ELSE x

\* C1: for every currentTemp and targetTemp, targetTemp = 40 and below
\* included, percentComplete is a number in [0, 100]; where the quotient is
\* defined it is clamp((currentTemp - 40) / (targetTemp - 40) * 100, 0, 100)
\* rounded to one decimal.
C1_PercentComplete ==
    analysis.state = "returned"
    => LET p    == analysis.value.percentComplete
           sign == IF targetTemp > 40 THEN 1 ELSE -1
       IN  /\ IsFinite(p)
           /\ Leq(I(0), p) /\ Leq(p, I(100))
           /\ targetTemp # 40 =>
                IsTenths(p, Clamp(HalfUp(1000 * sign * (currentTemp - 40),
                                         sign * (targetTemp - 40)), 0, 1000))

\* the window of a history of at least 2 readings spans a positive time
TrendIsComputed == Len(previousReadings) >= 2 /\ WindowMinutes(5) > 0

\* C2: with at least 2 readings and a positive span of the window of the
\* last min(5, n) readings, rate = temperature change / hours of the window,
\* and the trend is "stalled" for |rate| < 2 inside the stall range (bounds
\* included), "stable" for |rate| < 2 otherwise, "rising" for rate >= 2 and
\* "falling" for rate <= -2, decided on the unrounded rate; the reported
\* rate is the rate rounded to one decimal.
C2_TrendClassification ==
    (analysis.state = "returned" /\ TrendIsComputed)
    => LET dT   == WindowTempChange(5)
           dMin == WindowMinutes(5)
           slow == 60 * dT < 2 * dMin /\ 60 * dT > -2 * dMin
           r    == analysis.value
       IN  /\ IsTenths(r.trendRatePerHour, HalfUp(600 * dT, dMin))
           /\ (slow /\ CallInStallRange) => r.trend = "stalled"
           /\ (slow /\ ~CallInStallRange) => r.trend = "stable"
           /\ 60 * dT >= 2 * dMin => r.trend = "rising"
           /\ 60 * dT <= -2 * dMin => r.trend = "falling"

\* seven readings whose window of five rises 2 degrees in 61 minutes: the rate
\* is reported as 2.0 and classified as below 2
C2_Witness ==
    /\ analysis.state = "returned"
    /\ Len(previousReadings) = 7
    /\ previousReadings[1].timestamp = 60
    /\ WindowTempChange(5) = 2
    /\ WindowMinutes(5) = 61
    /\ analysis.value.trendRatePerHour = I(2)
    /\ analysis.value.trend = "stalled"

\* C3: a history of fewer than 2 readings, or one whose window does not end
\* later than it starts, never makes analyzeTemperature fail: it returns
\* trend "stable", rate 0 and no estimate, inside the stall range too.
C3_MalformedHistory ==
    (analysis # Pending /\ ~TrendIsComputed)
    => /\ analysis.state = "returned"
       /\ analysis.value.trend = "stable"
       /\ analysis.value.trendRatePerHour = I(0)
       /\ analysis.value.estimatedMinutesRemaining = None

\* a window running backwards in time with falling temperatures, at a
\* currentTemp on the lower bound of the stall range
C3_Witness ==
    /\ analysis.state = "returned"
    /\ proteinType = "beef_brisket"
    /\ currentTemp = 150
    /\ Len(previousReadings) >= 2
    /\ WindowMinutes(5) < 0
    /\ WindowTempChange(5) < 0
    /\ analysis.value.trend = "stable"

\* C4: estimatedMinutesRemaining is non-null exactly when the trend is
\* "rising", and then it is round((targetTemp - currentTemp) / rate * 60);
\* for "stable", "stalled" and "falling" it is null.
C4_MinutesRemaining ==
    analysis.state = "returned"
    => LET r == analysis.value
       IN  /\ IsSome(r.estimatedMinutesRemaining) <=> r.trend = "rising"
           /\ r.trend = "rising" =>
                /\ TrendIsComputed
                /\ WindowTempChange(5) > 0
                /\ r.estimatedMinutesRemaining =
                       Some(HalfUp((targetTemp - currentTemp) * WindowMinutes(5),
                                   WindowTempChange(5)))

\* a cook rising at exactly 2 degrees per hour, 53 degrees below its target
C4_Witness ==
    /\ analysis.state = "returned"
    /\ TrendIsComputed
    /\ WindowTempChange(5) = 2
    /\ WindowMinutes(5) = 60
    /\ currentTemp = 150
    /\ targetTemp = 203
    /\ analysis.value.trend = "rising"
    /\ analysis.value.estimatedMinutesRemaining = Some(1590)

\* C5: analyzeTemperature and detectStall report inStallZone = TRUE exactly
\* when the profile has a stall range and start <= currentTemp <= end, on
\* every return path, so the two always agree.
C5_InStallZone ==
    /\ analysis.state = "returned" => (analysis.value.inStallZone <=> CallInStallRange)
    /\ stall.state = "returned" => (stall.value.inStallZone <=> CallInStallRange)
    /\ (analysis.state = "returned" /\ stall.state = "returned")
           => analysis.value.inStallZone = stall.value.inStallZone

\* both calls made at the upper bound of the range, with too few readings to
\* confirm a stall
C5_Witness ==
    /\ analysis.state = "returned"
    /\ stall.state = "returned"
    /\ proteinType = "beef_brisket"
    /\ currentTemp = 170
    /\ Len(previousReadings) = 2
    /\ analysis.value.inStallZone
    /\ stall.value.inStallZone

\* C6: inside the stall range and with at least 3 readings, isStalled is
\* TRUE exactly when rate < 3, the rate being the temperature change per hour
\* over the window of the last min(6, n) readings, and 0 when that window
\* does not span a positive time.
C6_StallThreshold ==
    (stall.state = "returned" /\ CallInStallRange /\ Len(previousReadings) >= 3)
    => LET dT   == WindowTempChange(6)
           dMin == WindowMinutes(6)
       IN  stall.value.isStalled <=> (IF dMin > 0 THEN 60 * dT < 3 * dMin ELSE TRUE)

\* seven readings whose window of six rises exactly 2 degrees in the hour:
\* stalled for detectStall
C6_Witness ==
    /\ stall.state = "returned"
    /\ CallInStallRange
    /\ Len(previousReadings) = 7
    /\ previousReadings[1].timestamp = 60
    /\ previousReadings[2].timestamp = 0
    /\ WindowTempChange(6) = 2
    /\ WindowMinutes(6) = 60
    /\ stall.value.isStalled



\* 100 * (currentTemp - 40) / (targetTemp - 40), clamped to [0, 100], is below
\* 25 (a zero range gives -Infinity, clamped to 0, below 40 degrees, and NaN
\* or 100 otherwise)
PercentBelow25 ==
    LET range    == targetTemp - 40
        progress == currentTemp - 40
    IN  IF range > 0 THEN 4 * progress < range
        ELSE IF range < 0 THEN 4 * progress > range
        ELSE progress < 0

\* what a clause of the ladder contributes: its lines when its condition
\* holds, nothing otherwise
Clause(condition, lines) == IF condition THEN lines ELSE <<>>

\* C18: the recommendations of analyzeTemperature are, in this order, the
\* lines of every clause whose own condition holds on the result: (1) in the
\* stall zone and stalled: plateau warning, wrap suggestion; (2) in the
\* stall zone and rising: progress message; (3) targetTemp - currentTemp <=
\* carryoverDegrees + 5: getting close, naming targetTemp - carryoverDegrees;
\* (4) targetTemp - currentTemp <= 0: target reached, then the rest reminder
\* if the profile requires rest; (5) falling: heat-source warning, then the
\* fuel / airflow line if the method name contains "smoke"; (6) the percent
\* complete, before it is rounded, < 25 and a non-empty list of readings:
\* early stages.
C18_RecommendationLadder ==
    analysis.state = "returned"
    => LET r         == analysis.value
           carryover == CallProfile.carryoverDegrees
           delta     == targetTemp - currentTemp
       IN  r.recommendations
           = Clause(r.inStallZone /\ r.trend = "stalled",
                    << <<"in the stall zone">>, <<"consider wrapping">> >>)
             \o Clause(r.inStallZone /\ r.trend = "rising",
                       << <<"rising through the stall zone">> >>)
             \o Clause(delta <= carryover + 5,
                       << <<"getting close, pull at", targetTemp - carryover>> >>)
             \o Clause(delta <= 0,
                       << <<"target reached">> >>
                       \o Clause(CallProfile.requiresRest,
                                 << <<"rest for minutes", CallProfile.restTimeMinutes>> >>))
             \o Clause(r.trend = "falling",
                       << <<"temperature is dropping">> >>
                       \o Clause(cookMethod \in {Some("smoke_low_slow"), Some("smoke_hot_fast")},
                                 << <<"add fuel or adjust airflow">> >>))
             \o Clause(PercentBelow25 /\ previousReadings # <<>>,
                       << <<"early stages">> >>)

\* a brisket at 170 with a target of 40 and a falling history, smoked low
\* and slow: clauses 3, 4 and 5 all speak, in that order
C18_Witness ==
    /\ proteinType = "beef_brisket"
    /\ currentTemp = 170
    /\ targetTemp = 40
    /\ analysis.state = "returned"
    /\ analysis.value.trend = "falling"
    /\ analysis.value.recommendations
       = << <<"getting close, pull at", 35>>,
            <<"target reached">>,
            <<"rest for minutes", 60>>,
            <<"temperature is dropping">>,
            <<"add fuel or adjust airflow">> >>

-----------------------------------------------------------------------------
(* Properties of getTargetTemperature and calculateRestTime (SpecTarget).   *)

\* the doneness argument names a level the protein's map defines
DonenessIsDefined ==
    /\ IsSome(doneness)
    /\ \E i \in DOMAIN CallProfile.donenessTemps :
           CallProfile.donenessTemps[i][1] = Get(doneness)

HasInstruction(text) ==
    \E i \in DOMAIN restResult.value.instructions :
        restResult.value.instructions[i][1] = text

-----------------------------------------------------------------------------
(* Properties of convertTemperature (SpecConvert).                          *)

\* C16: convertTemperature with equal units returns its input; for a whole
\* number f of degrees Fahrenheit from -40 to 500 the Celsius value is
\* (f - 32) * 5 / 9 rounded to one decimal place, converting it back gives
\* that value * 9 / 5 + 32 rounded to an integer, and this integer differs
\* from f by at most 1.
C16_RoundTrip ==
    /\ (converted # Pending /\ fromUnit = toUnit) => converted.value = temperature
    /\ (convertedBack # Pending /\ fromUnit = "fahrenheit" /\ toUnit = "celsius")
       => LET f      == temperature.n
              c      == converted.value
              tenths == (c.n * 10) \div c.d
              back   == convertedBack.value
          IN  /\ IsFinite(c) /\ 10 % c.d = 0
              /\ IsRounded(tenths, 50 * (f - 32), 9)
              /\ IsFinite(back) /\ back.d = 1
              /\ IsRounded(back.n, 9 * tenths + 1600, 50)
              /\ back.n - f \in {-1, 0, 1}

\* 100 F is 37.8 C, and 37.8 C is 100 F again
C16_Witness ==
    /\ temperature = I(100)
    /\ fromUnit = "fahrenheit"
    /\ toUnit = "celsius"
    /\ converted = Returned(Q(189, 5))
    /\ convertedBack = Returned(I(100))

-----------------------------------------------------------------------------
(* Properties of every engine call (Spec).                                  *)

C17_SameArgumentsSameResult ==
    [][/\ analysis # Pending => analysis' = analysis
       /\ stall # Pending => stall' = stall
       /\ restResult # Pending => restResult' = restResult
       /\ targetResult # Pending => targetResult' = targetResult
       /\ converted # Pending => converted' = converted
      ]_vars

-----------------------------------------------------------------------------
(* The ThermoWorks Cloud client (thermoworks.js) and the tools that use it *)
(* (smithery.js, index.ts).  The clock counts seconds.  A handler runs up  *)
(* to the request it awaits; the response to the request runs it on to the *)
(* next request or to its result.  `network` lists the requests in the     *)
(* order they were sent.  A token is named by the number of the sign-in or *)
(* refresh request that returned it, and that request records the expiry   *)
(* the client computed for the token when it stored it.                    *)

\* auth.expiresIn: ID tokens expire after 1 hour
expiresIn == 60 * 60

\* ensureValidToken: tokenExpiry.getTime() - Date.now() < 5 * 60 * 1000
RefreshMargin == 5 * 60

\* new ThermoWorksClient()
ThermoWorksClient ==
    [idToken |-> None, refreshToken |-> None, userId |-> None, tokenExpiry |-> None]

isAuthenticated(client) == IsSome(client.idToken) /\ IsSome(client.userId)

\* ensureValidToken does not throw "Not authenticated"
HasTokens(client) == IsSome(client.idToken) /\ IsSome(client.refreshToken)

\* ensureValidToken refreshes the token
NeedsRefresh(client, clock) ==
    IsSome(client.tokenExpiry) /\ Get(client.tokenExpiry) - clock < RefreshMargin

\* a reset that leaves the singleton in place
resetThermoWorksClientKeepsClient(g) == g

\* the singleton after resetThermoWorksClient(): null
resetThermoWorksClient(g) == 0

\* getThermoWorksClient(): the singleton, created when there is none
getThermoWorksClient(g, cs) == IF g = 0 THEN Len(cs) + 1 ELSE g

\* the client objects after getThermoWorksClient()
ClientsAfterGet(g, cs) == IF g = 0 THEN Append(cs, ThermoWorksClient) ELSE cs

\* client.authenticate() after the sign-in returned the token
Authenticated(client, token, clock) ==
    [idToken |-> Some(token), refreshToken |-> Some(token), userId |-> Some("user"),
     tokenExpiry |-> Some(clock + expiresIn)]

\* ensureValidToken after the refresh returned the token
Refreshed(client, token, clock) ==
    [client EXCEPT !.idToken = Some(token), !.refreshToken = Some(token),
                   !.tokenExpiry = Some(clock + expiresIn)]

\* a request as it is sent
Request(kind, call, token) ==
    [kind |-> kind, call |-> call, token |-> token, expiry |-> None]

\* the sign-in or refresh request r was answered with a token that the
\* client stored with this expiry
Answered(net, r, clock) == [net EXCEPT ![r].expiry = Some(clock + expiresIn)]

\* a tool call as its handler starts
ToolCall(tool, client, method, signIn) ==
    [tool |-> tool, client |-> client, method |-> method, signIn |-> signIn,
     pc |-> "start", awaits |-> 0, token |-> None, remaining |-> 0,
     result |-> "pending"]

\* the handler returned: its locals are gone
Done(call, result) ==
    [call EXCEPT !.pc = "done", !.awaits = 0, !.token = None, !.remaining = 0,
                 !.result = result]

\* the calls with call k set to its new record
Put(k, call) == IF k > Len(calls) THEN Append(calls, call) ELSE [calls EXCEPT ![k] = call]

\* the first request of a client method
FirstRequest(method) == IF method = "getDeviceReadings" THEN "readings" ELSE "devices"

\* getDevices(idToken, ...) / getDeviceReadings(idToken, ...): the fetch
SendData(k, call, kind, token, net) ==
    /\ calls' = Put(k, [call EXCEPT !.pc = kind, !.token = token,
                                    !.awaits = Len(net) + 1])
    /\ network' = Append(net, Request(kind, k, token))

\* client.getDevices(), getDeviceReadings() or getAllReadings() up to the
\* request it awaits first: ensureValidToken, then the data request
CallMethod(k, call, client, net) ==
    IF ~HasTokens(client)
    THEN calls' = Put(k, Done(call, "error")) /\ network' = net
    ELSE IF NeedsRefresh(client, now)
    THEN /\ calls' = Put(k, [call EXCEPT !.pc = "refresh", !.awaits = Len(net) + 1])
         /\ network' = Append(net, Request("refresh", k, client.refreshToken))
    ELSE SendData(k, call, FirstRequest(call.method), client.idToken, net)

-----------------------------------------------------------------------------
(* The ThermoWorks tools, one action per handler step. *)

\* the most tool calls of a run
MaxCalls == 2

\* the last second of a run
MaxClock == 5100

ClockStep == expiresIn \div 2 - 100

\* the most devices an account has
MaxDevices == 1

\* the tools that read device data, with the client method each calls
DeviceTools ==
    {<<"thermoworks_get_devices", "getDevices">>,
     <<"thermoworks_get_live_readings", "getDeviceReadings">>,
     <<"thermoworks_get_live_readings", "getAllReadings">>,
     <<"thermoworks_analyze_live", "getDeviceReadings">>}

\* the tool calls made so far
ToolCalls == Cardinality({k \in DOMAIN calls : calls[k].tool # "createServer"})

\* createServer with credentials in the session configuration: the client is
\* fetched and its sign-in started; nothing waits for it
CreateServer ==
    /\ calls = <<>>
    /\ LET g == getThermoWorksClient(globalClient, clients)
       IN  /\ globalClient' = g
           /\ clients' = ClientsAfterGet(globalClient, clients)
           /\ calls' = <<[ToolCall("createServer", g, "none", "pending")
                            EXCEPT !.pc = "signIn", !.awaits = Len(network) + 1]>>
           /\ network' = Append(network, Request("signIn", 1, None))
    /\ UNCHANGED <<args, now, outcomes>>

\* thermoworks_authenticate up to the sign-in it awaits
ThermoworksAuthenticate ==
    /\ ToolCalls < MaxCalls
    /\ LET reset == resetThermoWorksClient(globalClient)
           g     == getThermoWorksClient(reset, clients)
           k     == Len(calls) + 1
       IN  /\ globalClient' = g
           /\ clients' = ClientsAfterGet(reset, clients)
           /\ calls' = Append(calls,
                  [ToolCall("thermoworks_authenticate", g, "getDevices", "pending")
                     EXCEPT !.pc = "signIn", !.awaits = Len(network) + 1])
           /\ network' = Append(network, Request("signIn", k, None))
    /\ UNCHANGED <<args, now, outcomes>>

\* the sign-in of call k is answered: on failure authenticate() throws; on
\* success the client stores the token, and thermoworks_authenticate goes on
\* to client.getDevices()
SignInResponds(k, ok) ==
    /\ calls[k].pc = "signIn"
    /\ LET call == calls[k]
           c    == call.client
           r    == call.awaits
       IN  IF ~ok
           THEN /\ calls' = Put(k, Done([call EXCEPT !.signIn = "failed"], "error"))
                /\ UNCHANGED <<clients, network>>
           ELSE /\ clients' = [clients EXCEPT ![c] = Authenticated(@, r, now)]
                /\ IF call.tool = "createServer"
                   THEN /\ calls' = Put(k, Done([call EXCEPT !.signIn = "ok"], "ok"))
                        /\ network' = Answered(network, r, now)
                   ELSE CallMethod(k, [call EXCEPT !.signIn = "ok"], clients'[c],
                                   Answered(network, r, now))
    /\ UNCHANGED <<args, now, outcomes, globalClient>>

\* thermoworks_get_devices, thermoworks_get_live_readings (with or without
\* a device serial) and thermoworks_analyze_live up to the request awaited
\* first, or to the "Not authenticated" result
DeviceTool(tool, method) ==
    /\ ToolCalls < MaxCalls
    /\ LET g    == getThermoWorksClient(globalClient, clients)
           cs   == ClientsAfterGet(globalClient, clients)
           k    == Len(calls) + 1
           call == ToolCall(tool, g, method, "none")
       IN  /\ globalClient' = g
           /\ clients' = cs
           /\ IF ~isAuthenticated(cs[g])
              THEN calls' = Put(k, Done(call, "error")) /\ network' = network
              ELSE CallMethod(k, call, cs[g], network)
    /\ UNCHANGED <<args, now, outcomes>>

\* the refresh of call k is answered: on failure ensureValidToken throws; on
\* success the client stores the new token and the method sends its request
RefreshResponds(k, ok) ==
    /\ calls[k].pc = "refresh"
    /\ LET call == calls[k]
           c    == call.client
           r    == call.awaits
       IN  IF ~ok
           THEN calls' = Put(k, Done(call, "error")) /\ UNCHANGED <<clients, network>>
           ELSE /\ clients' = [clients EXCEPT ![c] = Refreshed(@, r, now)]
                /\ SendData(k, call, FirstRequest(call.method), clients'[c].idToken,
                            Answered(network, r, now))
    /\ UNCHANGED <<args, now, outcomes, globalClient>>

\* the data request of call k is answered with n devices, or n readings of
\* the device: getAllDeviceReadings goes on to the readings of each device
\* in turn, with the token it was called with
DataResponds(k, ok, n) ==
    /\ calls[k].pc \in {"devices", "readings"}
    /\ LET call == calls[k]
           left == IF call.pc = "devices"
                   THEN (IF call.method = "getAllReadings" THEN n ELSE 0)
                   ELSE call.remaining
       IN  IF ~ok
           THEN calls' = Put(k, Done(call, "error")) /\ network' = network
           ELSE IF left > 0
           THEN SendData(k, [call EXCEPT !.remaining = left - 1], "readings",
                         call.token, network)
           ELSE /\ calls' = Put(k, Done(call,
                      IF call.tool = "thermoworks_analyze_live" /\ n = 0
                      THEN "error" ELSE "ok"))
                /\ network' = network
    /\ UNCHANGED <<args, now, outcomes, globalClient, clients>>

\* time passes, whatever is awaited: a step is 100 seconds short of half an
\* hour, so that a token meets a call with more than five minutes left,
\* with less, and expired
TimePasses ==
    /\ now + ClockStep <= MaxClock
    /\ now' = now + ClockStep
    /\ UNCHANGED <<args, outcomes, thermoWorks>>

InitSession ==
    /\ proteinType = "beef_brisket"
    /\ doneness = None
    /\ currentTemp = 195
    /\ targetFinalTemp = None
    /\ weightPounds = I(1)
    /\ cookMethod = None
    /\ smokerTemp = None
    /\ targetServingTime = 0
    /\ targetTemp = 0
    /\ previousReadings = <<>>
    /\ now = 0
    /\ cookTime = Pending
    /\ schedule = Pending
    /\ analysis = Pending
    /\ stall = Pending
    /\ targetResult = Pending
    /\ restResult = Pending
    /\ NoConversion
    /\ InitThermoWorks

NextSession ==
    \/ CreateServer
    \/ ThermoworksAuthenticate
    \/ \E tool \in DeviceTools : DeviceTool(tool[1], tool[2])
    \/ \E k \in DOMAIN calls, ok \in BOOLEAN : SignInResponds(k, ok)
    \/ \E k \in DOMAIN calls, ok \in BOOLEAN : RefreshResponds(k, ok)
    \/ \E k \in DOMAIN calls, ok \in BOOLEAN, n \in 0..MaxDevices : DataResponds(k, ok, n)
    \/ TimePasses
    \/ GetTargetTemperature

SpecSession == InitSession /\ [][NextSession]_vars

-----------------------------------------------------------------------------
(* Properties of the ThermoWorks tools (SpecSession).                       *)

DeviceToolNames == {tool[1] : tool \in DeviceTools}

\* the sign-ins started on the shared client
SignInsOfGlobalClient ==
    {k \in DOMAIN calls : calls[k].client = globalClient /\ calls[k].signIn # "none"}

\* the shared client is not authenticated: there is none, or no sign-in was
\* ever started on it, or the sign-in started on it last has failed or has
\* not been answered yet
Unauthenticated ==
    \/ globalClient = 0
    \/ SignInsOfGlobalClient = {}
    \/ LET last == CHOOSE k \in SignInsOfGlobalClient :
                       \A j \in SignInsOfGlobalClient : j <= k
       IN  calls[last].signIn # "ok"

\* C19: in every state where the shared client is not authenticated (never
\* authenticated, reset, or its last sign-in failed or is still awaited), a
\* call of thermoworks_get_devices, thermoworks_get_live_readings or
\* thermoworks_analyze_live returns an error at once and sends no request,
\* while a call of the guidance tool bbq_get_target_temperature returns its
\* result.
C19_UnauthenticatedToolsFail ==
    [][Unauthenticated
       => /\ (Len(calls') > Len(calls) /\ calls'[Len(calls')].tool \in DeviceToolNames)
             => /\ calls'[Len(calls')].pc = "done"
                /\ calls'[Len(calls')].result = "error"
                /\ network' = network
          /\ targetResult' # targetResult
             => /\ targetResult'.state = "returned"
                /\ targetResult'.value.targetTemp = 203
      ]_vars

\* the sign-in started by createServer failed and no other was started; all
\* the same the target temperature of brisket was returned, and the two
\* device tools called returned errors without a request: the only request
\* ever sent is the sign-in
C19_Witness ==
    /\ Len(calls) = 3
    /\ calls[1].tool = "createServer" /\ calls[1].signIn = "failed"
    /\ calls[2].tool = "thermoworks_get_live_readings" /\ calls[2].result = "error"
    /\ calls[3].tool = "thermoworks_analyze_live" /\ calls[3].result = "error"
    /\ Len(network) = 1
    /\ targetResult.state = "returned"

\* in this step call k calls getDevices, getDeviceReadings or getAllReadings
\* on an authenticated client: a device tool starts, or
\* thermoworks_authenticate has signed in
MethodCalled(k) ==
    \/ /\ k = Len(calls) + 1
       /\ Len(calls') = k
       /\ calls'[k].tool \in DeviceToolNames
       /\ isAuthenticated(clients'[calls'[k].client])
    \/ /\ k \in DOMAIN calls
       /\ calls[k].pc = "signIn"
       /\ calls[k].tool = "thermoworks_authenticate"
       /\ calls'[k].signIn = "ok"

\* in this step exactly one request is sent, of one of these kinds
Sends(kinds) ==
    /\ Len(network') = Len(network) + 1
    /\ network'[Len(network')].kind \in kinds

\* seconds left of the token of call k's client as the method is called
TokenTimeLeft(k) == Get(clients'[calls'[k].client].tokenExpiry) - now

\* a method called with less than five minutes left sends a refresh and no
\* data request; called with more than five minutes left it sends the data
\* request with the client's token and no refresh
RefreshWhenCalled ==
    \A k \in 1..(Len(calls) + 1) :
        MethodCalled(k)
        => /\ TokenTimeLeft(k) < RefreshMargin
              => calls'[k].pc = "refresh" /\ Sends({"refresh"})
           /\ TokenTimeLeft(k) > RefreshMargin
              => /\ calls'[k].pc \in {"devices", "readings"}
                 /\ Sends({"devices", "readings"})
                 /\ network'[Len(network')].token = clients'[calls'[k].client].idToken

\* when the refresh a call awaits ends, either it failed and the call ends
\* in an error without a data request, or the client has a new idToken, a
\* new refreshToken and a new tokenExpiry and the data request is sent with
\* the new idToken
DataAfterRefresh ==
    \A k \in DOMAIN calls :
        (calls[k].pc = "refresh" /\ calls'[k].pc # "refresh")
        => LET c == calls[k].client
           IN  \/ /\ calls'[k].result = "error"
                  /\ network' = network
                  /\ clients' = clients
               \/ /\ IsSome(clients'[c].idToken)
                  /\ clients'[c].idToken # clients[c].idToken
                  /\ clients'[c].refreshToken # clients[c].refreshToken
                  /\ clients'[c].tokenExpiry = Some(now + expiresIn)
                  /\ Sends({"devices", "readings"})
                  /\ network'[Len(network')].token = clients'[c].idToken

\* a data request sent in this step carries a token that is not past the
\* expiry recorded for it
NoExpiredTokenSent ==
    Sends({"devices", "readings"})
    => LET token == network'[Len(network')].token
       IN  /\ IsSome(token)
           /\ IsSome(network'[Get(token)].expiry)
           /\ now <= Get(network'[Get(token)].expiry)

\* C20: a call of getDevices, getDeviceReadings or getAllReadings on an
\* authenticated client made when the ID token has expired or has less than
\* five minutes left first completes a refresh that replaces idToken,
\* refreshToken and tokenExpiry and only then sends the data request, with
\* the new idToken; made when more than five minutes are left it sends no
\* refresh; and no data request is ever sent with a token that is past its
\* recorded expiry.
C20_TokensRefreshWhenNeeded ==
    [][RefreshWhenCalled /\ DataAfterRefresh /\ NoExpiredTokenSent]_vars

\* the part of C20 about the token test alone: what a method does as it is
\* called, and what it does when its refresh ends
RefreshBeforeFirstRequest == [][RefreshWhenCalled /\ DataAfterRefresh]_vars

-----------------------------------------------------------------------------
(* Properties of detectStall's duration and recommendation (SpecStall).     *)

\* the readings from which every reading up to the newest is inside the
\* call's stall range: the first of them starts the run that ends at the
\* newest reading
RunStarts ==
    {i \in DOMAIN previousReadings :
        \A j \in i..Len(previousReadings) :
            /\ CallProfile.stallRange.start <= previousReadings[j].temp
            /\ previousReadings[j].temp <= CallProfile.stallRange.end}

\* C21: when detectStall reports isStalled = TRUE, stallDurationMinutes is
\* the minutes from the timestamp of the oldest reading of the maximal run
\* of in-range readings that ends at the newest reading of the whole list
\* to the time of the call, and 0 when the newest reading is outside the
\* range.
C21_StallDuration ==
    (stall.state = "returned" /\ stall.value.isStalled)
    => stall.value.stallDurationMinutes =
           IF RunStarts = {} THEN 0
           ELSE now - previousReadings[CHOOSE i \in RunStarts :
                                           \A j \in RunStarts : i <= j].timestamp

\* seven readings, the third below the range: the run starts at the fourth,
\* taken at minute 60 and outside the window's first place, and the call at
\* minute 300 reports 240 minutes
C21_Witness ==
    /\ stall.state = "returned"
    /\ stall.value.isStalled
    /\ proteinType = "beef_brisket"
    /\ Len(previousReadings) = 7
    /\ previousReadings[3].temp = 149
    /\ previousReadings[7].timestamp = 0
    /\ RunStarts = 4..7
    /\ now = 300
    /\ stall.value.stallDurationMinutes = 240

\* C22: when detectStall reports a stall of d minutes, the recommendation is
\* the "normal" text for d < 60, the wrap suggestion naming d minutes for
\* 60 <= d <= 180, and the "extended stall" text naming d minutes for
\* d > 180; a stall of exactly 180 minutes gets the wrap suggestion.
C22_RecommendationTiers ==
    (stall.state = "returned" /\ stall.value.isStalled)
    => LET d == stall.value.stallDurationMinutes
       IN  stall.value.recommendation =
               IF d < 60 THEN <<"stall detected, this is normal">>
               ELSE IF d <= 180
                    THEN <<"stall has lasted minutes, consider wrapping", d>>
               ELSE <<"extended stall of minutes", d>>

\* C23: detectStall reports isStalled = TRUE only when the profile has a
\* stall range, currentTemp is inside it (bounds included) and at least 3
\* readings were passed; in every other case it returns isStalled = FALSE
\* and stallDurationMinutes = 0 whatever the readings are; and whenever
\* isStalled = FALSE, stallDurationMinutes = 0.
C23_StalledOnlyInRange ==
    stall.state = "returned"
    => /\ stall.value.isStalled => (CallInStallRange /\ Len(previousReadings) >= 3)
       /\ ~(CallInStallRange /\ Len(previousReadings) >= 3)
          => (~stall.value.isStalled /\ stall.value.stallDurationMinutes = 0)
       /\ ~stall.value.isStalled => stall.value.stallDurationMinutes = 0

\* brisket at 171, one degree above its range, with seven readings that all
\* lie inside the range and do not rise: not stalled, no duration
C23_Witness ==
    /\ stall.state = "returned"
    /\ proteinType = "beef_brisket"
    /\ currentTemp = 171
    /\ Len(previousReadings) = 7
    /\ RunStarts = 1..7
    /\ WindowTempChange(6) = 0
    /\ ~stall.value.isStalled
    /\ stall.value.stallDurationMinutes = 0

-----------------------------------------------------------------------------
(* Properties of estimateCookTime's total, done time and text               *)
(* (SpecCookTime).                                                          *)

\* C24: for a method with nonzero minutes-per-pound, totalMinutes is
\* minutesPerPound * weight * adjustment + b rounded to the nearest minute,
\* b being 60 for a profile with a stall range and 0 otherwise; the rest
\* minutes are not part of it, and the assumptions name the rest exactly
\* when the profile requires one.
C24_TotalMinutes ==
    (cookTime.state = "returned" /\ CallTimePerPound # 0)
    => LET w    == weightPounds
           b    == IF CallProfile.stallRange.defined THEN 60 ELSE 0
           a250 == IF IsSome(smokerTemp) /\ Get(smokerTemp) # 0
                   THEN C8_Adjustment250(Get(cookMethod), Get(smokerTemp))
                   ELSE 250
           notes == cookTime.value.assumptions
       IN  /\ cookTime.value.totalMinutes =
                  HalfUp(CallTimePerPound * w.n * a250 + b * 250 * w.d, 250 * w.d)
           /\ (\E i \in DOMAIN notes : notes[i] = "add rest time")
              <=> (CallProfile.requiresRest /\ CallProfile.restTimeMinutes > 0)

\* 14 pounds of brisket, smoked low and slow at 250: 70 * 14 * 0.9 + 60 = 942
\* minutes, without the 60 minutes of rest the assumptions name
C24_Witness ==
    /\ cookTime.state = "returned"
    /\ proteinType = "beef_brisket"
    /\ weightPounds = I(14)
    /\ Get(cookMethod) = "smoke_low_slow"
    /\ smokerTemp = Some(250)
    /\ cookTime.value.totalMinutes = 942
    /\ cookTime.value.assumptions[3] = "add rest time"

\* C25: for every estimateCookTime result, estimatedDoneTime is the time of
\* the call plus the returned totalMinutes, also when the cook time has a
\* fractional part.
C25_DoneTime ==
    cookTime.state = "returned"
    => cookTime.value.estimatedDoneTime - now = cookTime.value.totalMinutes

\* C26: for every estimateCookTime result with nonzero minutes-per-pound,
\* the minutes shown in hoursAndMinutes are within 0..59, and the hours
\* shown times 60 plus the minutes shown is the returned totalMinutes.
C26_HoursAndMinutes ==
    (cookTime.state = "returned" /\ CallTimePerPound # 0)
    => LET shown == cookTime.value.hoursAndMinutes
       IN  /\ shown.minutes \in 0..59
           /\ shown.hours * 60 + shown.minutes = cookTime.value.totalMinutes

-----------------------------------------------------------------------------
(* Properties of analyzeTemperature's estimate and window (SpecAnalysis).   *)

\* C27: whenever analyzeTemperature returns an estimatedMinutesRemaining
\* that is not null, it is not negative, for every currentTemp, targetTemp
\* and reading history, a rising trend with currentTemp at or above
\* targetTemp included.
C27_MinutesRemainingNotNegative ==
    (analysis.state = "returned" /\ IsSome(analysis.value.estimatedMinutesRemaining))
    => Get(analysis.value.estimatedMinutesRemaining) >= 0

\* C28: analyzeTemperature depends on the reading history only through its
\* last five readings: a call with five readings and a call with the same
\* currentTemp, targetTemp, protein and method whose list has older readings
\* before the same five return the same trend, trendRatePerHour,
\* estimatedMinutesRemaining and recommendations, whatever the older
\* readings are.
C28_LastFiveDecide ==
    (analysis.state = "returned" /\ Len(previousReadings) = 5)
    => \A older \in OlderReadings :
          LET longer == analyzeTemperature(currentTemp, targetTemp, proteinType,
                                           cookMethod, older \o previousReadings)
          IN  /\ longer.state = "returned"
              /\ longer.value.trend = analysis.value.trend
              /\ longer.value.trendRatePerHour = analysis.value.trendRatePerHour
              /\ longer.value.estimatedMinutesRemaining
                     = analysis.value.estimatedMinutesRemaining
              /\ longer.value.recommendations = analysis.value.recommendations

\* a rising window of five readings; an older reading that is hotter than
\* the newest would turn the trend if it were looked at
C28_Witness ==
    /\ analysis.state = "returned"
    /\ Len(previousReadings) = 5
    /\ previousReadings[1] = [temp |-> 149, timestamp |-> 0]
    /\ previousReadings[5] = [temp |-> 152, timestamp |-> 61]
    /\ analysis.value.trend = "rising"
    /\ IsSome(analysis.value.estimatedMinutesRemaining)
    /\ \E older \in OlderReadings :
          /\ Len(older) = MaxOlder
          /\ older[1].temp > previousReadings[5].temp

-----------------------------------------------------------------------------
(* Properties of thermoworks_authenticate and of the refresh (SpecSession). *)

AuthenticateCalls == {k \in DOMAIN calls : calls[k].tool = "thermoworks_authenticate"}

\* the thermoworks_authenticate call started last has failed to sign in
LastAuthenticateFailed ==
    /\ AuthenticateCalls # {}
    /\ LET last == CHOOSE k \in AuthenticateCalls : \A j \in AuthenticateCalls : j <= k
       IN  calls[last].signIn = "failed"

\* C29: thermoworks_authenticate discards the shared client before it signs
\* in: once the sign-in of the thermoworks_authenticate call started last
\* has failed, the shared client is a client without tokens, also when an
\* authenticated session existed before the call or the sign-in started by
\* createServer is answered afterwards, and every device tool called then
\* returns an error at once and sends no request.
C29_FailedAuthenticateDiscardsSession ==
    [][LastAuthenticateFailed
       => /\ globalClient # 0
          /\ ~isAuthenticated(clients[globalClient])
          /\ (Len(calls') > Len(calls) /\ calls'[Len(calls')].tool \in DeviceToolNames)
             => /\ calls'[Len(calls')].pc = "done"
                /\ calls'[Len(calls')].result = "error"
                /\ network' = network
      ]_vars

\* createServer signed in, so a session existed; thermoworks_authenticate
\* then failed to sign in, and the device tool called after it returned an
\* error: the two sign-ins are the only requests
C29_Witness ==
    /\ Len(calls) = 3
    /\ calls[1].tool = "createServer" /\ calls[1].signIn = "ok"
    /\ isAuthenticated(clients[calls[1].client])
    /\ calls[2].tool = "thermoworks_authenticate" /\ calls[2].signIn = "failed"
    /\ calls[3].tool \in DeviceToolNames /\ calls[3].result = "error"
    /\ Len(network) = 2
    /\ ~isAuthenticated(clients[globalClient])

\* the calls that await a refresh sent for client c
RefreshesInFlight(c) == {k \in DOMAIN calls : calls[k].client = c /\ calls[k].pc = "refresh"}

\* a refresh of client c that was answered has replaced this refresh token
ReplacedByRefresh(c, token) ==
    \E r \in DOMAIN network :
        /\ network[r].kind = "refresh"
        /\ IsSome(network[r].expiry)
        /\ calls[network[r].call].client = c
        /\ network[r].token = token

\* C30: for each ThermoWorksClient at most one refresh request is in flight
\* at any time, also when two device-data calls overlap while the token is
\* within five minutes of its expiry, and no refresh request in flight
\* carries a refresh token that a completed refresh has already replaced.
C30_OneRefreshInFlight ==
    \A c \in DOMAIN clients :
        /\ Cardinality(RefreshesInFlight(c)) <= 1
        /\ \A k \in RefreshesInFlight(c) :
              ~ReplacedByRefresh(c, network[calls[k].awaits].token)
====
